---- MODULE Spec2Model ----
(***************************************************************************)
(* The chat relay of JuliaBaucher/lab2.                                    *)
(*                                                                         *)
(* The repository holds two alternative Express programs:                  *)
(*   src/server.js          POST /chat      CORS allow-list, optional      *)
(*                                          X-Client-Token gate            *)
(*   src/unnamed/part_001   POST /api/chat  express-rate-limit quota       *)
(* A deployment runs one of them; Init chooses which (variable app).       *)
(***************************************************************************)
EXTENDS Integers, Sequences, FiniteSets, Bags, TLC

VARIABLES
    app,        \* the program that is running: "server.js" or "part_001"
    env,        \* process.env: OPENAI_API_KEY, CLIENT_TOKEN
    now,        \* Date.now(), in milliseconds since the server started
    store,      \* chatLimiter's MemoryStore: client key -> [totalHits, resetTime]
    pending,    \* bag of requests suspended at `await fetch(...)`
    last,       \* the exchange completed last: request, upstream outcome, response
    admitted,   \* history: per key, requests chatLimiter let through in the key's current window
    nonOk       \* history: per key, some request admitted in the current window was answered non-2xx

vars == <<app, env, now, store, pending, last, admitted, nonOk>>

----------------------------------------------------------------------------
(* Bounds of the model *)

\* part_001: at most this many requests are suspended at the upstream call at once
MaxPending == 2
\* server.js: the same; its requests share no state, so one suspended request
\* already shows all that a second could
MaxPendingChat == 1
\* the clock advances at most this many half-windows
MaxTicks == 3
\* a client keeps sending at most this many requests beyond the ceiling in one window
MaxOver == 1

----------------------------------------------------------------------------
(* JavaScript values: tagged records *)

Undefined == [t |-> "undefined"]
Null == [t |-> "null"]
Str(s) == [t |-> "string", v |-> s]
Arr(s) == [t |-> "array", v |-> s]
Obj(f) == [t |-> "object", v |-> f]
NoFields == [x \in {} |-> Undefined]
EmptyObj == Obj(NoFields)

\* ToBoolean: undefined, null and "" are falsy; arrays and objects are truthy
Truthy(x) ==
    CASE x.t = "undefined" -> FALSE
      [] x.t = "null" -> FALSE
      [] x.t = "string" -> x.v # ""
      [] OTHER -> TRUE

\* a || b
Or(a, b) == IF Truthy(a) THEN a ELSE b

IsNullish(x) == x.t \in {"undefined", "null"}

\* o.f for an o that is not null or undefined (the caller checks: o.f throws there)
Prop(o, f) == IF o.t = "object" /\ f \in DOMAIN o.v THEN o.v[f] ELSE Undefined

\* o?.f
OptProp(o, f) == IF IsNullish(o) THEN Undefined ELSE Prop(o, f)

\* o?.[0]
OptFirst(o) ==
    IF IsNullish(o) THEN Undefined
    ELSE IF o.t = "array" /\ Len(o.v) > 0 THEN o.v[1]
    ELSE Undefined

\* Array.isArray(x)
IsArray(x) == x.t = "array"

----------------------------------------------------------------------------
(* Bodies on the wire, and JSON parsing *)

NoBody == [kind |-> "none"]
Malformed == [kind |-> "malformed"]
Json(x) == [kind |-> "json", value |-> x]

SyntaxError == [t |-> "SyntaxError"]

\* express.json(): a request without a body leaves req.body = {}; a body that
\* is not JSON makes the parser fail the request; otherwise req.body is the value
bodyParser(body) ==
    CASE body.kind = "none" -> EmptyObj
      [] body.kind = "malformed" -> SyntaxError
      [] OTHER -> body.value

\* await response.json(): the parsed body, or a thrown SyntaxError
responseJson(body) ==
    IF body.kind = "json" THEN body.value ELSE SyntaxError

----------------------------------------------------------------------------
(* Responses *)

NoHeaders == [h \in {} |-> <<>>]

Response(status, headers, body) ==
    [status |-> status, headers |-> headers, body |-> body]

\* res.status(s).json({ error: e })
ErrorBody(e) == Obj("error" :> e)
\* res.json({ message: m })
MessageBody(m) == Obj("message" :> m)
\* the error page of Express's default error handler
HtmlBody == [t |-> "html"]
TextBody(s) == [t |-> "text", v |-> s]
NoContent == [t |-> "empty"]

\* the handler's outcome before its first await: a response, or the upstream call
Respond(status, body) == [kind |-> "respond", status |-> status, body |-> body]
Fetch == [kind |-> "fetch"]

----------------------------------------------------------------------------
(* Configuration *)

\* process.env values the model draws from
ApiKeys == {Undefined, Str("sk-test")}
ClientTokens == {Undefined, Str("s3cret")}

Programs == {"server.js", "part_001"}

\* server.js: const CLIENT_TOKEN = process.env.CLIENT_TOKEN || ""
CLIENT_TOKEN == Or(env.CLIENT_TOKEN, Str(""))

\* const OPENAI_API_KEY = process.env.OPENAI_API_KEY, read in the handler
OPENAI_API_KEY == env.OPENAI_API_KEY

----------------------------------------------------------------------------
(* server.js: cross-origin headers *)

\* An origin is a sequence of text pieces (the string is their concatenation),
\* so that "begins with" is the prefix order; <<>> is the empty string, which
\* like an absent header is falsy.
NoOrigin == <<>>

ALLOW_ORIGINS ==
    << <<"http://localhost:5500">>,
       <<"https://juliabaucher.github.io", "/lab2/">>,
       <<"https://your-custom-domain.example">> >>

\* origins a request may declare: none, an allow-listed one, one that begins
\* with an allow-listed origin, and one not on the list (the origin of the
\* GitHub Pages site: the list holds it with a path appended)
Origins ==
    { NoOrigin,
      <<"http://localhost:5500">>,
      <<"http://localhost:5500", ".evil.example">>,
      <<"https://juliabaucher.github.io">> }

\* ALLOW_ORIGINS.includes(origin)
Includes(list, x) == \E i \in 1..Len(list) : list[i] = x

\* origin.startsWith(allowed)
StartsWith(s, prefix) ==
    Len(prefix) <= Len(s) /\ SubSeq(s, 1, Len(prefix)) = prefix

OriginAllowedPrefix(origin) ==
    origin # NoOrigin /\ \E i \in 1..Len(ALLOW_ORIGINS) : StartsWith(origin, ALLOW_ORIGINS[i])

\* origin && ALLOW_ORIGINS.includes(origin)
OriginAllowed(origin) ==
    origin # NoOrigin /\ Includes(ALLOW_ORIGINS, origin)

\* the headers the first middleware sets on every response
corsHeaders(origin) ==
    (IF OriginAllowed(origin)
        THEN ("Access-Control-Allow-Origin" :> origin)
        ELSE NoHeaders)
    @@ ("Vary" :> <<"Origin">>)
    @@ ("Access-Control-Allow-Headers" :> <<"Content-Type, X-Client-Token">>)
    @@ ("Access-Control-Allow-Methods" :> <<"OPTIONS, POST, GET">>)

----------------------------------------------------------------------------
(* The handlers up to the upstream call *)

\* const { messages } = req.body || {}
messagesOf(body) == Prop(Or(body, EmptyObj), "messages")

TokenCheckOff(token) == FALSE

\* server.js: if (CLIENT_TOKEN) { t = header || header || ""; if (t !== CLIENT_TOKEN) -> 401 }
TokenRejected(token) ==
    Truthy(CLIENT_TOKEN) /\ Or(Or(token, token), Str("")) # CLIENT_TOKEN

ShapeRejectedMissingOnly(messages) == messages = Undefined

\* if (!Array.isArray(messages)) -> 400
ShapeRejected(messages) == ~IsArray(messages)

KeyNeverMissing(key) == FALSE

\* if (!OPENAI_API_KEY) -> 500
KeyMissing(key) == ~Truthy(key)

\* both handlers: shape validation, then the credential check, then the upstream call
validateAndForward(body) ==
    IF ShapeRejected(messagesOf(body))
        THEN Respond(400, ErrorBody(Str("messages must be an array")))
    ELSE IF KeyMissing(OPENAI_API_KEY)
        THEN Respond(500, ErrorBody(Str("OPENAI_API_KEY is not set on the server")))
    ELSE Fetch

\* server.js app.post("/chat"): the token gate, then validateAndForward
chatHandler(req, body) ==
    IF TokenRejected(req.token)
        THEN Respond(401, ErrorBody(Str("Unauthorized")))
    ELSE validateAndForward(body)

\* server.js, a whole request up to its first await: the CORS middleware,
\* express.json, then the route
serverJs(req) ==
    LET body == bodyParser(req.body) IN
    IF req.method = "OPTIONS" THEN Respond(204, NoContent)
    ELSE IF body = SyntaxError THEN Respond(400, HtmlBody)
    ELSE IF req.method = "GET" THEN Respond(200, TextBody("OK: cv-chat-backend is running"))
    ELSE chatHandler(req, body)

----------------------------------------------------------------------------
(* part_001: chatLimiter = rateLimit({ windowMs, max, message }) *)

\* windowMs: 24 * 60 * 60 * 1000
windowMs == 24 * 60 * 60 * 1000

\* max: 50
max == 50

\* the clock's step in the model: half a window
TickMs == windowMs \div 2

\* client keys (req.ip): one client address; the store keeps a record per key
Keys == {"10.0.0.1"}

\* the store's record of a key: a key never seen, or whose window has elapsed,
\* starts a window of its own at the current time
clientOf(st, key, t) ==
    IF key \in DOMAIN st /\ st[key].resetTime > t
        THEN st[key]
        ELSE [totalHits |-> 0, resetTime |-> t + windowMs]

\* whether the key's record, if any, has run out at time t
windowElapsed(st, key, t) == key \in DOMAIN st /\ st[key].resetTime <= t

\* a read-modify-write that is not atomic: the write of a request that arrives
\* while another is suspended is lost
incrementRacy(st, key, t) ==
    IF key \in DOMAIN st /\ st[key].resetTime > t /\ pending # EmptyBag
        THEN st[key]
        ELSE [clientOf(st, key, t) EXCEPT !.totalHits = @ + 1]

\* store.increment(key): one read-modify-write of the key's record, with no
\* await between the read and the write, so no other request runs in between
increment(st, key, t) ==
    [clientOf(st, key, t) EXCEPT !.totalHits = @ + 1]

LimitReachedLate(totalHits) == totalHits > max + 1

\* the middleware answers 429 when totalHits > max, and calls next() otherwise
LimitReached(totalHits) == totalHits > max

\* message: { error: "Too many requests, please try again tomorrow" }
limiterMessage == ErrorBody(Str("Too many requests, please try again tomorrow"))

apiChatValidateFirst(req, client) ==
    LET body == bodyParser(req.body)
        r == validateAndForward(body)
    IN  IF body = SyntaxError THEN Respond(400, HtmlBody)
        ELSE IF r.kind = "respond" THEN r
        ELSE IF LimitReached(client.totalHits) THEN Respond(429, limiterMessage)
        ELSE r

\* part_001, a whole request to POST /api/chat up to its first await:
\* express.json, chatLimiter, then the handler. `client` is what increment returned.
apiChat(req, client) ==
    LET body == bodyParser(req.body) IN
    IF body = SyntaxError THEN Respond(400, HtmlBody)
    ELSE IF LimitReached(client.totalHits) THEN Respond(429, limiterMessage)
    ELSE validateAndForward(body)

----------------------------------------------------------------------------
(* The handlers after the upstream call *)

NetworkError == [kind |-> "networkError"]
Answer(status, body) == [kind |-> "response", status |-> status, body |-> body]
NoUpstream == [kind |-> "none"]

\* response.ok
Ok(status) == 200 <= status /\ status <= 299

\* what a handler does with an upstream answer: respond, or throw into its catch
Throw == [kind |-> "throw"]

\* data.error?.message || fallback, answered with the upstream's status
upstreamError(status, data, fallback) ==
    IF IsNullish(data) THEN Throw
    ELSE Respond(status, ErrorBody(Or(OptProp(Prop(data, "error"), "message"), Str(fallback))))

\* part_001: data.choices?.[0]?.message?.content || "No response from AI"
replyOf(data) ==
    Or(OptProp(OptProp(OptFirst(Prop(data, "choices")), "message"), "content"),
       Str("No response from AI"))

\* server.js lines 65-84
chatAfterFetch(outcome) ==
    IF outcome.kind = "networkError" THEN Throw
    ELSE LET data == responseJson(outcome.body) IN
         IF data = SyntaxError THEN Throw
         ELSE IF ~Ok(outcome.status) THEN upstreamError(outcome.status, data, "OpenAI error")
         ELSE Respond(200, data)

\* part_001 lines 37-61
apiAfterFetch(outcome) ==
    IF outcome.kind = "networkError" THEN Throw
    ELSE LET data == responseJson(outcome.body) IN
         IF data = SyntaxError THEN Throw
         ELSE IF ~Ok(outcome.status) THEN upstreamError(outcome.status, data, "OpenAI API error")
         ELSE IF IsNullish(data) THEN Throw
         ELSE Respond(200, MessageBody(replyOf(data)))

apiCatchBadGateway == Respond(502, ErrorBody(Str("Server error. Please try again.")))

\* the catch blocks
chatCatch == Respond(500, ErrorBody(Str("Server error")))
apiCatch == Respond(500, ErrorBody(Str("Server error. Please try again.")))

chatSettle(outcome) ==
    LET r == chatAfterFetch(outcome) IN IF r = Throw THEN chatCatch ELSE r

apiSettle(outcome) ==
    LET r == apiAfterFetch(outcome) IN IF r = Throw THEN apiCatch ELSE r

----------------------------------------------------------------------------
(* Inputs *)

turn(role, content) == Obj(("role" :> Str(role)) @@ ("content" :> Str(content)))

\* a valid two-turn conversation
conversation == Arr(<<turn("system", "You answer questions about the CV."),
                      turn("user", "Where did she work?")>>)

\* request bodies: absent, not JSON, {}, messages not an array, a two-turn
\* conversation
Bodies ==
    { NoBody, Malformed,
      Json(EmptyObj),
      Json(Obj("messages" :> Str("hi"))),
      Json(Obj("messages" :> conversation)) }

\* X-Client-Token headers: absent, the secret, another value
Tokens == {Undefined, Str("s3cret"), Str("wrong")}

Request(method, path, origin, token, body, ip) ==
    [method |-> method, path |-> path, origin |-> origin, token |-> token,
     body |-> body, ip |-> ip]

\* requests to server.js; it never reads the client's address
ChatRequests ==
    { Request("OPTIONS", "/chat", o, Undefined, NoBody, "-") : o \in Origins }
    \cup { Request("GET", "/", o, Undefined, NoBody, "-") : o \in Origins }
    \cup { Request("POST", "/chat", o, t, b, "-") : o \in Origins, t \in Tokens, b \in Bodies }

\* requests to part_001's chat route; it reads neither Origin nor X-Client-Token
ApiRequests ==
    { Request("POST", "/api/chat", NoOrigin, Undefined, b, k) : k \in Keys, b \in Bodies }

completion(content) ==
    Obj("choices" :> Arr(<<Obj("message" :> Obj(("role" :> Str("assistant")) @@ ("content" :> content)))>>))

\* bodies the upstream sends with a success status
OkBodies ==
    { Malformed, Json(Null), Json(EmptyObj),
      Json(Obj("choices" :> Arr(<<>>))),
      Json(Obj("choices" :> Arr(<<EmptyObj>>))),
      Json(Obj("choices" :> Arr(<<Obj("message" :> EmptyObj)>>))),
      Json(completion(Str(""))),
      Json(completion(Str("She worked at Acme."))) }

\* bodies the upstream sends with an error status
ErrorBodies ==
    { Malformed, Json(Null), Json(EmptyObj),
      Json(Obj("error" :> EmptyObj)),
      Json(Obj("error" :> Obj("message" :> Str("Rate limit reached")))) }

ErrorStatuses == {401, 503}

\* how an upstream call ends: the fetch rejects, or the upstream answers
Outcomes ==
    { NetworkError }
    \cup { Answer(200, b) : b \in OkBodies }
    \cup { Answer(s, b) : s \in ErrorStatuses, b \in ErrorBodies }

----------------------------------------------------------------------------
(* State machine *)

NoExchange == [kind |-> "none"]

\* a finished request: what was asked, how the upstream call ended (if one was
\* made), how many upstream calls were made for it, and the answer
Exchange(req, upstream, fetches, res) ==
    [kind |-> "exchange", req |-> req, upstream |-> upstream, fetches |-> fetches, res |-> res]

\* a request suspended at `await fetch(...)`: one upstream call is in flight
Suspended(req, headers) == [req |-> req, headers |-> headers, fetches |-> 1]

Init ==
    /\ app \in Programs
    /\ env \in [OPENAI_API_KEY : ApiKeys, CLIENT_TOKEN : ClientTokens]
    /\ app = "part_001" => env.CLIENT_TOKEN = Undefined   \* part_001 never reads it
    /\ now = 0
    /\ store = [k \in {} |-> [totalHits |-> 0, resetTime |-> 0]]
    /\ pending = EmptyBag
    /\ last = NoExchange
    /\ admitted = [k \in Keys |-> 0]
    /\ nonOk = [k \in Keys |-> FALSE]

\* server.js receives a request and runs it up to its response or its upstream call
ChatRequest(req) ==
    /\ app = "server.js"
    /\ LET r == serverJs(req)
           headers == corsHeaders(req.origin)
       IN  IF r.kind = "respond"
             THEN /\ last' = Exchange(req, NoUpstream, 0, Response(r.status, headers, r.body))
                  /\ UNCHANGED pending
             ELSE /\ BagCardinality(pending) < MaxPendingChat
                  /\ pending' = pending (+) SetToBag({Suspended(req, headers)})
                  /\ UNCHANGED last
    /\ UNCHANGED <<app, env, now, store, admitted, nonOk>>

\* the upstream call of a suspended server.js request ends; the handler answers
ChatSettle(p, outcome) ==
    /\ app = "server.js"
    /\ p \in BagToSet(pending)
    /\ LET r == chatSettle(outcome) IN
       last' = Exchange(p.req, outcome, p.fetches, Response(r.status, p.headers, r.body))
    /\ pending' = pending (-) SetToBag({p})
    /\ UNCHANGED <<app, env, now, store, admitted, nonOk>>

\* part_001 receives a POST /api/chat and runs it up to its response or its
\* upstream call: express.json, chatLimiter (which counts the request), the handler
ApiRequest(req) ==
    /\ app = "part_001"
    /\ LET key == req.ip
           parsed == bodyParser(req.body) # SyntaxError   \* the limiter is reached
           fresh == key \notin DOMAIN store \/ windowElapsed(store, key, now)
           client == increment(store, key, now)
           r == apiChat(req, client)
           passed == parsed /\ r # Respond(429, limiterMessage)
           before == IF fresh THEN 0 ELSE admitted[key]
       IN  /\ parsed => client.totalHits <= max + MaxOver
           /\ store' = IF parsed THEN (key :> client) @@ store ELSE store
           /\ admitted' = IF parsed
                            THEN [admitted EXCEPT ![key] = before + (IF passed THEN 1 ELSE 0)]
                            ELSE admitted
           /\ nonOk' = IF parsed
                         THEN [nonOk EXCEPT ![key] = (~fresh /\ @) \/ (passed /\ r.kind = "respond")]
                         ELSE nonOk
           /\ IF r.kind = "respond"
                THEN /\ last' = Exchange(req, NoUpstream, 0, Response(r.status, NoHeaders, r.body))
                     /\ UNCHANGED pending
                ELSE /\ BagCardinality(pending) < MaxPending
                     /\ pending' = pending (+) SetToBag({Suspended(req, NoHeaders)})
                     /\ UNCHANGED last
    /\ UNCHANGED <<app, env, now>>

\* the upstream call of a suspended part_001 request ends; the handler answers
ApiSettle(p, outcome) ==
    /\ app = "part_001"
    /\ p \in BagToSet(pending)
    /\ LET r == apiSettle(outcome) IN
       /\ last' = Exchange(p.req, outcome, p.fetches, Response(r.status, p.headers, r.body))
       /\ nonOk' = [nonOk EXCEPT ![p.req.ip] = @ \/ ~Ok(r.status)]
    /\ pending' = pending (-) SetToBag({p})
    /\ UNCHANGED <<app, env, now, store, admitted>>

\* time passes (only part_001 reads the clock)
Tick ==
    /\ app = "part_001"
    /\ now < MaxTicks * TickMs
    /\ now' = now + TickMs
    /\ UNCHANGED <<app, env, store, pending, last, admitted, nonOk>>

Next ==
    \/ \E req \in ChatRequests : ChatRequest(req)
    \/ \E p \in BagToSet(pending), outcome \in Outcomes : ChatSettle(p, outcome)
    \/ \E req \in ApiRequests : ApiRequest(req)
    \/ \E p \in BagToSet(pending), outcome \in Outcomes : ApiSettle(p, outcome)
    \/ Tick

Spec == Init /\ [][Next]_vars

\* What the code itself guarantees to happen: time passes. A suspended handler
\* resumes only when its `await fetch(...)` / `await response.json()` settles, and
\* that is the upstream's doing: fetch is given no `signal` and no timeout, and no
\* handler arms a timer, so no step of the server ends a call the upstream keeps
\* open. Neither the settling of calls nor the arrival of requests is fair.
FairSpec == Spec /\ WF_vars(Tick)

----------------------------------------------------------------------------
(* Vocabulary of the properties *)

\* an exchange has completed
Done == last.kind = "exchange"

\* the exchange completed last was a POST to the chat endpoint (/chat or /api/chat)
ChatPost == Done /\ last.req.method = "POST"

\* the request body reached the handler as a value (express.json accepted it)
Parsed(req) == bodyParser(req.body) # SyntaxError

\* the body has no `messages` field, or one that is not an array
LacksMessages(req) ==
    Parsed(req) /\ ~IsArray(Prop(bodyParser(req.body), "messages"))

\* the body is { error: <non-empty string> }
IsErrorBody(body) ==
    /\ body.t = "object"
    /\ DOMAIN body.v = {"error"}
    /\ body.v["error"].t = "string"
    /\ body.v["error"].v # ""

\* the body is { message: <string> }
IsMessageBody(body) ==
    /\ body.t = "object"
    /\ DOMAIN body.v = {"message"}
    /\ body.v["message"].t = "string"

\* a shared secret is configured
SecretConfigured == env.CLIENT_TOKEN # Undefined /\ env.CLIENT_TOKEN # Str("")

\* the X-Client-Token header is missing or differs from the secret
TokenMismatch(req) == req.token # env.CLIENT_TOKEN

\* the server credential is unset
KeyUnset == env.OPENAI_API_KEY = Undefined

\* the request was turned away by a gate that runs before shape validation:
\* server.js's token gate (401) or part_001's quota gate (429)
TurnedAway ==
    \/ app = "server.js" /\ SecretConfigured /\ TokenMismatch(last.req)
          /\ last.res.status = 401
    \/ app = "part_001" /\ last.res.status = 429

----------------------------------------------------------------------------
(* C1 *)

----------------------------------------------------------------------------
(* C3 *)

\* C3 as stated: with OPENAI_API_KEY unset every call to the chat relay is
\* answered 500 with the not-configured message, valid body or not.
C3_UnsetKeyAlways500 ==
    (ChatPost /\ KeyUnset) =>
        /\ last.res.status = 500
        /\ last.res.body = ErrorBody(Str("OPENAI_API_KEY is not set on the server"))
        /\ last.fetches = 0

\* C3 amended: with OPENAI_API_KEY unset no upstream call is ever made, and every
\* POST whose `messages` is an array and that the token and quota gates let
\* through is answered 500 with the not-configured message; a body without an
\* array-valued `messages` is answered 400 as in C1, not 500.
C3_UnsetKeyNoUpstream ==
    KeyUnset =>
        /\ pending = EmptyBag
        /\ ChatPost =>
            /\ last.fetches = 0
            /\ last.upstream = NoUpstream
            /\ (Parsed(last.req) /\ ~LacksMessages(last.req)) =>
                  TurnedAway \/ ( /\ last.res.status = 500
                                  /\ last.res.body =
                                       ErrorBody(Str("OPENAI_API_KEY is not set on the server")) )
            /\ LacksMessages(last.req) => last.res.status # 500

\* with the key unset, a valid conversation was answered 500 "not set"
C3_Witness ==
    /\ ChatPost
    /\ KeyUnset
    /\ last.req.body = Json(Obj("messages" :> conversation))
    /\ last.res.status = 500
    /\ last.res.body = ErrorBody(Str("OPENAI_API_KEY is not set on the server"))

----------------------------------------------------------------------------
(* C4 *)

\* the upstream answered the forwarded request with a non-2xx status
UpstreamFailed ==
    Done /\ last.upstream.kind = "response" /\ ~Ok(last.upstream.status)

\* C4: whenever the upstream answers with a non-2xx status, the relay's response
\* carries that same status and a body { error: <non-empty string> }, whatever
\* the upstream body holds (message present, absent, or body not JSON).
C4_UpstreamStatusMirrored ==
    UpstreamFailed =>
        /\ last.res.status = last.upstream.status
        /\ IsErrorBody(last.res.body)

----------------------------------------------------------------------------
(* C5 *)

\* success bodies in which the first choice's message content is missing:
\* no `choices`, empty `choices`, no `message`, no `content`
ContentMissing ==
    { Json(EmptyObj),
      Json(Obj("choices" :> Arr(<<>>))),
      Json(Obj("choices" :> Arr(<<EmptyObj>>))),
      Json(Obj("choices" :> Arr(<<Obj("message" :> EmptyObj)>>))) }

\* C5: when the upstream answers with a success status and a body whose first
\* choice's message content is missing, the relay answers 2xx and its `message`
\* field is the fixed placeholder string.
C5_PlaceholderWhenContentMissing ==
    ( /\ Done
      /\ last.upstream.kind = "response"
      /\ Ok(last.upstream.status)
      /\ last.upstream.body \in ContentMissing ) =>
        /\ Ok(last.res.status)
        /\ last.res.body = MessageBody(Str("No response from AI"))

----------------------------------------------------------------------------
(* C6 *)

\* the content string of the first choice of a success body, when there is one
ContentOf(body) ==
    OptProp(OptProp(OptFirst(Prop(body.value, "choices")), "message"), "content")

HasContentString(upstream) ==
    /\ upstream.kind = "response"
    /\ Ok(upstream.status)
    /\ upstream.body.kind = "json"
    /\ upstream.body.value.t = "object"
    /\ ContentOf(upstream.body).t = "string"

\* C6: for a valid conversation and an upstream that succeeds with first-choice
\* content S, the response's `message` field equals exactly S, for every string
\* S, the empty string included.
C6_RoundTrip ==
    (Done /\ HasContentString(last.upstream)) =>
        /\ Ok(last.res.status)
        /\ last.res.body = MessageBody(ContentOf(last.upstream.body))

----------------------------------------------------------------------------
(* C7 *)

ACAO == "Access-Control-Allow-Origin"

\* the allow-list as a set
AllowList == { ALLOW_ORIGINS[i] : i \in 1..Len(ALLOW_ORIGINS) }

----------------------------------------------------------------------------
(* C8 *)

\* C8 as stated: with a secret configured every POST whose X-Client-Token is
\* missing or differs is answered 401 before any quota counter is touched and
\* before any upstream call; with no secret configured no request is answered 401.
\* (Stated here of the requests that reach the route, which is enough to refute it.)
C8_TokenGate ==
    (ChatPost /\ app = "server.js" /\ Parsed(last.req)) =>
        /\ (SecretConfigured /\ TokenMismatch(last.req)) =>
              last.res.status = 401 /\ last.fetches = 0 /\ DOMAIN store = {}
        /\ ~SecretConfigured => last.res.status # 401

\* C8 amended: with a secret configured every POST whose body express.json
\* accepts and whose X-Client-Token is missing or differs is answered 401
\* "Unauthorized" with no quota counter touched and no upstream call; with no
\* secret configured the header is ignored (a valid conversation is forwarded
\* whatever the header) and a response is 401 only when it mirrors a 401 the
\* upstream itself answered.
C8_TokenGateBeforeUpstream ==
    (ChatPost /\ app = "server.js") =>
        /\ (SecretConfigured /\ TokenMismatch(last.req) /\ Parsed(last.req)) =>
              /\ last.res.status = 401
              /\ last.res.body = ErrorBody(Str("Unauthorized"))
              /\ last.fetches = 0
              /\ last.upstream = NoUpstream
              /\ DOMAIN store = {}
        /\ (~SecretConfigured /\ last.res.status = 401) =>
              last.upstream.kind = "response" /\ last.upstream.status = 401
        /\ (~SecretConfigured /\ ~KeyUnset /\ Parsed(last.req) /\ ~LacksMessages(last.req)) =>
              last.fetches = 1

\* with the secret configured, a POST carrying another token was answered 401
C8_Witness ==
    /\ ChatPost
    /\ app = "server.js"
    /\ SecretConfigured
    /\ last.req.token = Str("wrong")
    /\ last.req.body = Json(Obj("messages" :> conversation))
    /\ last.res.status = 401
    /\ last.fetches = 0

----------------------------------------------------------------------------
(* C9 *)

\* the statuses an error response may carry: 400, 401, 429, 500, or the status
\* the upstream answered
ErrorStatusesOf(exchange) ==
    {400, 401, 429, 500}
    \cup (IF exchange.upstream.kind = "response" THEN {exchange.upstream.status} ELSE {})

\* C9: every response of the chat endpoint is either 2xx with a body of exactly
\* one field `message` holding the reply text, or an error { error: string } with
\* status 400, 401, 429, 500 or the mirrored upstream status; a successful relay
\* never returns the upstream's raw completion object.
\* (Stated of the responses the route itself produces.)
C9_TwoShapes ==
    (ChatPost /\ Parsed(last.req)) =>
        \/ Ok(last.res.status) /\ IsMessageBody(last.res.body)
        \/ /\ ~Ok(last.res.status)
           /\ last.res.status \in ErrorStatusesOf(last)
           /\ IsErrorBody(last.res.body)

----------------------------------------------------------------------------
(* C2 *)

\* this step is the quota gate counting a request of key k
Counted(k) ==
    /\ k \in DOMAIN store'
    /\ k \notin DOMAIN store \/ store'[k] # store[k]

\* key k's window is running
WindowLive(k) == k \in DOMAIN store /\ store[k].resetTime > now

\* this step answers a request of key k with 429 and makes no upstream call
Rejected429(k) ==
    /\ last'.kind = "exchange"
    /\ last'.req.ip = k
    /\ last'.res.status = 429
    /\ last'.res.body = limiterMessage
    /\ last'.fetches = 0
    /\ pending' = pending

\* C2, first half: once max (50) requests of a key have passed the quota gate in
\* its running window - in particular after 50 successfully relayed ones - every
\* further request of the key in that window is answered 429 without an
\* upstream call.
C2_OverCeilingRejected ==
    \A k \in Keys :
        (WindowLive(k) /\ admitted[k] >= max /\ Counted(k)) => Rejected429(k)

\* C2, second half: the first request of a key after its window has elapsed is
\* let through (a valid one goes to the upstream), and the count restarts from it.
C2_WindowRestart ==
    \A k \in Keys :
        (windowElapsed(store, k, now) /\ Counted(k)) =>
            /\ store'[k] = [totalHits |-> 1, resetTime |-> now + windowMs]
            /\ admitted'[k] = 1
            /\ \/ BagCardinality(pending') = BagCardinality(pending) + 1
               \/ /\ last'.kind = "exchange"
                  /\ last'.req.ip = k
                  /\ last'.res.status \in {400, 500}
                  /\ last'.res.status = 400 <=> LacksMessages(last'.req)
                  /\ last'.res.status = 500 => KeyUnset

----------------------------------------------------------------------------
(* C10 *)

\* C10: under any interleaving of a key's requests with its pending upstream
\* calls the quota counter never undercounts: in one window at most max (50)
\* requests of the key pass the quota gate, everything that passed is counted,
\* and the requests suspended at the upstream never exceed what passed.
C10_NeverOverCeiling ==
    \A k \in Keys :
        /\ admitted[k] <= max
        /\ k \in DOMAIN store => admitted[k] <= store[k].totalHits
        /\ k \notin DOMAIN store => admitted[k] = 0

\* a request of a key was answered 429 while MaxPending earlier ones of the
\* same key were still suspended at the upstream
C10_Witness ==
    \E k \in Keys :
        /\ Done
        /\ last.req.ip = k
        /\ last.res.status = 429
        /\ admitted[k] = max
        /\ BagCardinality(pending) >= 2
        /\ \A p \in BagToSet(pending) : p.req.ip = k

----------------------------------------------------------------------------
(* C11 *)

\* the server holds as many requests suspended at the upstream as it takes on
\* here, so that no further request can be forwarded before one of them is answered
AllSuspended ==
    BagCardinality(pending) = IF app = "server.js" THEN MaxPendingChat ELSE MaxPending

\* C11 as stated: every request the relay has forwarded is eventually answered,
\* whatever the upstream does (a call that is never answered times out and is
\* answered 500). Hence, whenever every request the server holds is suspended at
\* the upstream, one of them is eventually answered.
C11_EveryRequestAnswered == AllSuspended ~> ~AllSuspended

----------------------------------------------------------------------------
(* C12 *)

\* the upstream call threw (network failure), or the body of its answer is not JSON
Threw(upstream) ==
    \/ upstream = NetworkError
    \/ upstream.kind = "response" /\ responseJson(upstream.body) = SyntaxError

\* the handler's fixed failure text, which carries nothing of the upstream's answer
GenericError ==
    ErrorBody(Str(IF app = "server.js" THEN "Server error"
                  ELSE "Server error. Please try again."))

\* no request is answered after more than one upstream call, and a request whose
\* call threw or was answered with an unparseable body is answered 500 with the
\* handler's generic `error` string
C12_FailureAnswered500 ==
    Done =>
        /\ last.fetches <= 1
        /\ Threw(last.upstream) =>
              /\ last.fetches = 1
              /\ last.res.status = 500
              /\ IsErrorBody(last.res.body)
              /\ last.res.body = GenericError

\* a step that forwards a request to the upstream
Forwarded == Next /\ BagCardinality(pending') = BagCardinality(pending) + 1

\* after a failed exchange the server still forwards a valid request, wherever
\* credential and quota allow one
C12_StillServing ==
    ( /\ Done
      /\ Threw(last.upstream)
      /\ ~KeyUnset
      /\ pending = EmptyBag
      /\ \A k \in DOMAIN store : store[k].totalHits < max ) => ENABLED Forwarded

\* the step that answers a failed upstream call leaves the configuration, the
\* clock, the quota counters and every other suspended request as they were
C12_FailureIsolated ==
    ( /\ BagCardinality(pending') < BagCardinality(pending)
      /\ Threw(last'.upstream) ) =>
        /\ <<app, env, now, store, admitted>>' = <<app, env, now, store, admitted>>
        /\ pending' = pending (-) SetToBag({Suspended(last'.req, last'.res.headers)})
        /\ last'.res.status = 500

\* C12: each request makes at most one upstream call (nothing is retried); when
\* that call throws or its body cannot be parsed the request is answered 500 with
\* a non-empty generic `error` string, and the failure touches nothing else: the
\* quota counters and the configuration are unchanged, the other suspended
\* requests stay suspended, and the server goes on forwarding requests.
C12_FailureContained ==
    /\ [](C12_FailureAnswered500 /\ C12_StillServing)
    /\ [][C12_FailureIsolated]_vars

\* part_001 answered 500 for a call that threw, while another request of the same
\* client, counted by the quota like the failed one, was still at the upstream
C12_Witness ==
    \E k \in Keys :
        /\ app = "part_001"
        /\ Done
        /\ last.req.ip = k
        /\ last.upstream = NetworkError
        /\ last.fetches = 1
        /\ last.res.status = 500
        /\ last.res.body = ErrorBody(Str("Server error. Please try again."))
        /\ k \in DOMAIN store
        /\ store[k].totalHits >= 2
        /\ pending # EmptyBag

----------------------------------------------------------------------------
(* C13 *)

\* this step forwards a POST to /api/chat of key k to the upstream
ApiForwarded(k) ==
    \E p \in BagToSet(pending') :
        p.req.ip = k /\ pending' = pending (+) SetToBag({p})

\* this step answers a POST to /api/chat of key k without an upstream call
ApiAnswered(k) ==
    /\ last' # last
    /\ last'.upstream = NoUpstream
    /\ last'.req.ip = k

\* this step takes a POST to /api/chat of key k: it answers it or forwards it
Handled(k) == app = "part_001" /\ (ApiAnswered(k) \/ ApiForwarded(k))

\* this step raises key k's counter by one (from zero when no window is running)
Incremented(k) ==
    /\ k \in DOMAIN store'
    /\ store'[k].totalHits = (IF WindowLive(k) THEN store[k].totalHits ELSE 0) + 1

\* key k has used up its ceiling in its running window
OverCeiling(k) == WindowLive(k) /\ store[k].totalHits >= max

\* C13 as stated: every POST to /api/chat increments the caller's counter, and
\* once over the ceiling every POST is answered 429, whatever its body.
C13_EveryPostCounted ==
    [][\A k \in Keys :
          Handled(k) => /\ Incremented(k)
                        /\ OverCeiling(k) => Rejected429(k)]_vars

\* a POST whose body express.json accepted is counted before it is validated:
\* over the ceiling it is answered 429 whatever its shape, under it the handler
\* runs (400 for a bad shape, 500 for a missing credential, else the upstream)
C13_CountedBeforeValidation(k) ==
    /\ Incremented(k)
    /\ OverCeiling(k) => Rejected429(k)
    /\ ~OverCeiling(k) =>
          \/ ApiForwarded(k)
          \/ /\ ApiAnswered(k)
             /\ last'.res.status \in {400, 500}
             /\ last'.res.status = 400 <=> LacksMessages(last'.req)
             /\ last'.res.status = 500 => KeyUnset

\* a POST whose body is not JSON is answered 400 by express.json and never
\* reaches the limiter: it is not counted and is not answered 429
C13_UnparsedNotCounted(k) ==
    /\ store' = store
    /\ last'.res.status = 400
    /\ last'.res.body = HtmlBody
    /\ last'.fetches = 0

\* C13 amended: the quota check runs after the JSON body parser and before shape
\* validation and the credential check. Every POST to /api/chat whose body the
\* parser accepts increments the caller's counter, also when it is then answered
\* 400, 500 or an upstream error (the answer of the upstream never lowers the
\* counter), and once over the ceiling it is answered 429 even when its body has
\* no array-valued `messages`. A POST whose body is not JSON is answered 400 by
\* the parser, uncounted, also over the ceiling.
C13_ParsedPostCounted ==
    [][/\ \A k \in Keys :
            Handled(k) =>
                IF ApiForwarded(k) \/ Parsed(last'.req)
                  THEN C13_CountedBeforeValidation(k)
                  ELSE C13_UnparsedNotCounted(k)
       /\ (app = "part_001" /\ BagCardinality(pending') < BagCardinality(pending))
             => store' = store]_vars

\* a client over its ceiling was answered 429 for a body without `messages`, after
\* fewer than max successfully relayed requests: some of the max requests that
\* passed the gate were answered 400, 500 or an upstream error
C13_Witness ==
    \E k \in Keys :
        /\ app = "part_001"
        /\ Done
        /\ last.req.ip = k
        /\ LacksMessages(last.req)
        /\ last.res.status = 429
        /\ last.res.body = limiterMessage
        /\ k \in DOMAIN store
        /\ store[k].totalHits = max + 1
        /\ admitted[k] = max
        /\ nonOk[k]

====
